---- MODULE Spec2Model ----
(***************************************************************************)
(* A model of the system-call layer of the PintOS kernel of this           *)
(* repository, src/pintos/src/userprog/syscall.c: the dispatcher           *)
(* syscall_handler, the address checks and page pinning it does, and the   *)
(* fifteen handlers sys_*.                                                 *)
(*                                                                         *)
(* Addresses are numbers 0 .. AddrSpace-1; the 32-bit address space of the *)
(* machine is scaled down to NPAGES pages of PGSIZE bytes, the last KPAGES *)
(* of them kernel space, and pointer arithmetic is taken modulo AddrSpace. *)
(* A value the user controls (the stack pointer, the words on the stack,   *)
(* the bytes of a string) is an input of the action that reads it.         *)
(***************************************************************************)
EXTENDS Integers, Sequences, FiniteSets, TLC

(***************************************************************************)
(* Bounds of the model.                                                    *)
(***************************************************************************)
\* struct file objects the file system hands out before filesys_open starts
\* returning NULL
MaxFiles == 2
\* mappings a process makes
MaxMaps == 2
\* the longest file of the mapping model, in bytes
MaxLen == 50
\* threads of the interleaving model
NumThreads == 2

(***************************************************************************)
(* The address space.                                                      *)
(***************************************************************************)
\* sizeof (uint32_t): the size of the syscall number and of an argument slot
WORD == 4
PGSIZE == 4 * WORD
UPAGES == 6
KPAGES == 1
NPAGES == UPAGES + KPAGES
PHYS_BASE == UPAGES * PGSIZE
AddrSpace == NPAGES * PGSIZE
\* the largest stack, and how far below the stack pointer an access may fall
STACK_MAX == 3 * PGSIZE
STACK_SLACK == 2 * WORD

NULL == -1
Addrs == 0 .. (AddrSpace - 1)
Pages == 0 .. (NPAGES - 1)

pg_no(a) == a \div PGSIZE
\* pointer arithmetic of the 32-bit machine
PtrAdd(a, n) == (a + n) % AddrSpace

is_user_vaddr(a) == a < PHYS_BASE
is_valid_user_addr(a) == a # 0 /\ is_user_vaddr(a)

(***************************************************************************)
(* The supplemental page table: one entry per page, kind "none" where the  *)
(* process has no entry.                                                   *)
(***************************************************************************)
NoSpte ==
  [kind |-> "none", writeable |-> FALSE, pinned |-> FALSE, mapid |-> 0,
   read_bytes |-> 0]

Spte(kind, w) == [NoSpte EXCEPT !.kind = kind, !.writeable = w]

\* the address space of a loaded process: page 0 unmapped, a read-only code
\* page, a data page, a hole the stack may grow into, two stack pages
InitSpt ==
  [p \in Pages |->
     IF p = 1 THEN Spte("exec", FALSE)
     ELSE IF p = 2 THEN Spte("exec", TRUE)
     ELSE IF p \in {UPAGES - 2, UPAGES - 1} THEN Spte("zero", TRUE)
     ELSE NoSpte]

get_spte(spt, a) ==
  IF a \in Addrs /\ is_user_vaddr(a) /\ spt[pg_no(a)].kind # "none"
  THEN pg_no(a) ELSE NULL

is_stack_growth(addr, esp) ==
  /\ is_user_vaddr(addr)
  /\ addr >= PHYS_BASE - STACK_MAX
  /\ addr + STACK_SLACK >= esp

(***************************************************************************)
(* The state of the calling process and of the kernel around it, as one    *)
(* record st that the handlers transform.  Beside the program's state it   *)
(* carries the inputs of the call (st.grow: whether frame allocation for a *)
(* new stack page succeeds; st.ub: how the build resolved an overflowing   *)
(* pointer sum) and what the call did (st.ret, st.ran, st.fsops,           *)
(* st.console): these are observations, the code does not read them.       *)
(*                                                                         *)
(* status: "running", "exited" (thread_exit), "halted" (power off),        *)
(* "blocked" (lock_acquire of a lock that is never released), "panic"      *)
(* (a NULL dereference inside the kernel).                                 *)
(***************************************************************************)
NoRet == -2

\* a call that left user mode continues only while the thread still runs
Running(st) == st.status = "running"

\* file system: one more call made, under the lock or not
FsOp(st) ==
  [st EXCEPT !.fsops = @ + 1,
             !.unlocked = @ + (IF st.lock THEN 0 ELSE 1)]

file_close(st, h) ==
  IF h \in 1 .. Len(st.files)
  THEN [FsOp(st) EXCEPT !.files[h].closes = @ + 1]
  ELSE FsOp(st)

RECURSIVE CloseAll(_, _)
CloseAll(st, fds) ==
  IF fds = <<>> THEN st
  ELSE CloseAll(file_close(st, Head(fds).file_pointer), Tail(fds))

\* thread_exit: the thread never runs again, and process_exit destroys the
\* supplemental page table of the process
thread_exit(st) ==
  [st EXCEPT !.status = "exited", !.spt = [p \in Pages |-> NoSpte]]

sys_exit_leak(st, status) ==
  thread_exit([st EXCEPT !.file_descriptors = <<>>, !.exit_status = status])

\* sys_exit: pops and closes every descriptor, records the status, thread_exit
sys_exit(st, status) ==
  thread_exit([CloseAll(st, st.file_descriptors) EXCEPT
                 !.file_descriptors = <<>>, !.exit_status = status])

(***************************************************************************)
(* Pinning.                                                                *)
(***************************************************************************)
\* spt_load: makes the page resident and marks it pinned
spt_load(st, p) ==
  [st EXCEPT !.spt[p].pinned = TRUE, !.pins = @ \cup {p}]

\* spt_stack_growth: a fresh zero page, writable, loaded at once; being made
\* resident for the kernel, it is pinned as a page that spt_load loads
spt_stack_growth(st, addr) ==
  spt_load([st EXCEPT !.spt[pg_no(addr)] = Spte("zero", TRUE)], pg_no(addr))

check_and_pin_addr(st, addr, esp) ==
  IF ~Running(st) THEN st
  ELSE IF get_spte(st.spt, addr) # NULL
       THEN spt_load(st, get_spte(st.spt, addr))
       ELSE IF is_stack_growth(addr, esp)
            THEN IF st.grow THEN spt_stack_growth(st, addr)
                 ELSE sys_exit(st, -1)
            ELSE sys_exit(st, -1)

unpin_addr(st, addr) ==
  IF ~Running(st) THEN st
  ELSE IF get_spte(st.spt, addr) # NULL
       THEN [st EXCEPT !.spt[get_spte(st.spt, addr)].pinned = FALSE]
       ELSE st

\* The addresses a loop  for (addr = uaddr; addr < uaddr + len; ++addr)
\* visits.  When uaddr + len passes the end of the address space the pointer
\* sum overflows: a build that computes the wrapped sum runs the loop zero
\* times (ub = "wrap"); a build that counts len iterations walks on through
\* the top of the address space (ub = "count").
LoopAddrs(uaddr, len, ub) ==
  IF uaddr + len < AddrSpace \/ ub = "count"
  THEN [i \in 1 .. len |-> PtrAdd(uaddr, i - 1)]
  ELSE <<>>

RECURSIVE PinBufferFrom(_, _, _, _)
PinBufferFrom(st, addrs, esp, write) ==
  IF addrs = <<>> \/ ~Running(st) THEN st
  ELSE LET addr == Head(addrs)
           spte == get_spte(st.spt, addr)
           st1  == IF ~is_valid_user_addr(addr) THEN sys_exit(st, -1)
                   ELSE check_and_pin_addr(st, addr, esp)
           st2  == IF Running(st1) /\ spte # NULL /\ write
                      /\ ~st.spt[spte].writeable
                   THEN sys_exit(st1, -1) ELSE st1
       IN  PinBufferFrom(st2, Tail(addrs), esp, write)

check_and_pin_buffer(st, uaddr, len, esp, write) ==
  PinBufferFrom(st, LoopAddrs(uaddr, len, st.ub), esp, write)

RECURSIVE UnpinFrom(_, _)
UnpinFrom(st, addrs) ==
  IF addrs = <<>> \/ ~Running(st) THEN st
  ELSE UnpinFrom(unpin_addr(st, Head(addrs)), Tail(addrs))

unpin_buffer(st, uaddr, len) == UnpinFrom(st, LoopAddrs(uaddr, len, st.ub))

(***************************************************************************)
(* Strings.  The user's memory holds the bytes of cstr and a 0 after them  *)
(* from address str on, wherever the process has a page at syscall entry;  *)
(* a page created by stack growth during the call reads as zeros.  StrAt   *)
(* is the string the kernel reads at str: cstr cut at the first byte that  *)
(* is not on a page of the process.                                        *)
(***************************************************************************)
RECURSIVE OnPages(_, _, _)
OnPages(spt, str, n) ==
  IF n = 0 THEN 0
  ELSE IF get_spte(spt, str) = NULL THEN 0
       ELSE 1 + OnPages(spt, PtrAdd(str, 1), n - 1)

StrAt(spt, str, cstr) == SubSeq(cstr, 1, OnPages(spt, str, Len(cstr)))

RECURSIVE PinStringFrom(_, _, _, _)
PinStringFrom(st, str, n, esp) ==
  IF ~Running(st) THEN st
  ELSE IF n = 0 THEN check_and_pin_addr(st, str, esp)
       ELSE PinStringFrom(check_and_pin_addr(st, str, esp),
                          PtrAdd(str, 1), n - 1, esp)

\* pins str, and then the byte after each byte that is not 0
check_and_pin_string(st, str, s, esp) == PinStringFrom(st, str, Len(s), esp)

unpin_string(st, str, s) ==
  UnpinFrom(st, [i \in 1 .. Len(s) + 1 |-> PtrAdd(str, i - 1)])

\* valid_uaddr: every byte non-null, below PHYS_BASE and with an SPT entry
RECURSIVE ValidFrom(_, _)
ValidFrom(st, addrs) ==
  IF addrs = <<>> \/ ~Running(st) THEN st
  ELSE IF Head(addrs) = 0 \/ ~is_user_vaddr(Head(addrs))
          \/ get_spte(st.spt, Head(addrs)) = NULL
       THEN sys_exit(st, -1)
       ELSE ValidFrom(st, Tail(addrs))

valid_uaddr(st, uaddr, len) == ValidFrom(st, LoopAddrs(uaddr, len, st.ub))

valid_string(st, str, s) ==
  ValidFrom(st, [i \in 1 .. Len(s) + 1 |-> PtrAdd(str, i - 1)])

(***************************************************************************)
(* The file system and the lock around it.                                 *)
(***************************************************************************)
\* the strings a user passes: "" and "a"
Names == {<<>>, <<1>>}
NoFile == -1

\* lock_acquire: a thread that already holds the lock never gets it again
lock_acquire(st) ==
  IF ~Running(st) THEN st
  ELSE IF st.lock THEN [st EXCEPT !.status = "blocked"]
       ELSE [st EXCEPT !.lock = TRUE]

lock_release(st) == IF Running(st) THEN [st EXCEPT !.lock = FALSE] ELSE st

Return(st, v) == IF Running(st) THEN [st EXCEPT !.ret = v] ELSE st

\* The kernel dereferences NULL: the access faults in kernel mode, and the
\* page-fault handler of the build either kills the process as it does for
\* a bad user access (st.fault = "kill") or stops the kernel.
KernelFault(st) ==
  IF st.fault = "kill" THEN sys_exit(st, -1)
  ELSE [st EXCEPT !.status = "panic"]

Min(a, b) == IF a < b THEN a ELSE b
Max(a, b) == IF a > b THEN a ELSE b

\* (the struct files of the mappings come out of the same pool)
CanOpen(st, name) ==
  /\ name \in Names
  /\ st.filesys[name] # NoFile
  /\ Len(st.files) + st.mapid < MaxFiles

\* filesys_open: a new struct file on the named file (the inode, here its
\* length, outlives the removal of the name)
NewFile(st, name, len) ==
  [FsOp(st) EXCEPT
     !.files = Append(@, [name |-> name, len |-> len, closes |-> 0])]

file_length(st, h) == st.files[h].len

\* bytes file_read / file_write transfer: up to the end of the file (the
\* position inside the file is not part of the model)
Transfer(st, h, size) == Min(size, file_length(st, h))

file_io(st, h, size) == FsOp(st)

\* strlcpy (dst, src, size): at most size - 1 bytes of src
strlcpy(src, size) == SubSeq(src, 1, Min(Len(src), Max(0, size - 1)))

\* get_fdstruct: the position of the entry of fd in the list, 0 for NULL
get_fdstruct(fds, fd) ==
  IF \E i \in 1 .. Len(fds) : fds[i].fd = fd
  THEN CHOOSE i \in 1 .. Len(fds) :
         fds[i].fd = fd /\ \A j \in 1 .. (i - 1) : fds[j].fd # fd
  ELSE 0

\* list_remove
Remove(seq, i) == SubSeq(seq, 1, i - 1) \o SubSeq(seq, i + 1, Len(seq))

(***************************************************************************)
(* The handlers.  Each runs only in a thread that is still running, and    *)
(* marks that its body was entered (st.ran).                               *)
(***************************************************************************)
Enter(st, name) == IF Running(st) THEN [st EXCEPT !.ran = name] ELSE st

\* the bytes buffer .. buffer + size - 1 a handler is handed
Range(buffer, size) == {PtrAdd(buffer, i) : i \in 0 .. (size - 1)}

\* entering sys_read or sys_write: which bytes of its buffer were never
\* checked (null, kernel space, or no page), and which lie on a page that
\* is not pinned
EnterIO(st, name, buffer, size) ==
  IF Running(st)
  THEN [st EXCEPT !.ran = name,
                  !.unval = {b \in Range(buffer, size) :
                               ~is_valid_user_addr(b) \/ get_spte(st.spt, b) = NULL},
                  !.unpinned = {b \in Range(buffer, size) :
                                  \/ get_spte(st.spt, b) = NULL
                                  \/ ~st.spt[pg_no(b)].pinned}]
  ELSE st

sys_create(st0, file, s, initial_size) ==
  LET st  == lock_acquire(valid_string(Enter(st0, "create"), file, s))
      ok  == s # <<>> /\ st.filesys[s] = NoFile
      st1 == IF ok THEN [FsOp(st) EXCEPT !.filesys[s] = initial_size]
             ELSE FsOp(st)
  IN  IF ~Running(st) THEN st ELSE Return(lock_release(st1), IF ok THEN 1 ELSE 0)

sys_remove(st0, file, s) ==
  LET st  == lock_acquire(valid_string(Enter(st0, "remove"), file, s))
      ok  == st.filesys[s] # NoFile
      st1 == IF ok THEN [FsOp(st) EXCEPT !.filesys[s] = NoFile] ELSE FsOp(st)
  IN  IF ~Running(st) THEN st ELSE Return(lock_release(st1), IF ok THEN 1 ELSE 0)

sys_open_reuse(st0, file, s) ==
  LET st  == lock_acquire(valid_string(Enter(st0, "open"), file, s))
      st1 == NewFile(st, s, st.filesys[s])
      fd  == 2 + Len(st.file_descriptors)
  IN  IF ~Running(st) THEN st
      ELSE IF ~CanOpen(st, s) THEN Return(lock_release(FsOp(st)), -1)
      ELSE IF ~st.malloc THEN KernelFault(st1)
      ELSE Return(lock_release(
             [st1 EXCEPT !.fd_index = @ + 1,
                         !.file_descriptors =
                            Append(@, [fd |-> fd, file_pointer |-> Len(st1.files),
                                       name |-> strlcpy(s, Len(s))])]), fd)

sys_open(st0, file, s) ==
  LET st  == lock_acquire(valid_string(Enter(st0, "open"), file, s))
      st1 == NewFile(st, s, st.filesys[s])
      fd  == st.fd_index
  IN  IF ~Running(st) THEN st
      ELSE IF ~CanOpen(st, s) THEN Return(lock_release(FsOp(st)), -1)
      ELSE IF ~st.malloc THEN KernelFault(st1)
      ELSE Return(lock_release(
             [st1 EXCEPT !.fd_index = @ + 1,
                         !.file_descriptors =
                            Append(@, [fd |-> fd, file_pointer |-> Len(st1.files),
                                       name |-> strlcpy(s, Len(s))])]), fd)

sys_close_keep(st0, fd) ==
  LET st == Enter(st0, "close")
      i  == get_fdstruct(st.file_descriptors, fd)
      l  == lock_acquire(st)
  IN  IF ~Running(st) THEN st
      ELSE IF fd < 2 THEN sys_exit(st, -1)
      ELSE IF i = 0 THEN sys_exit(st, -1)
      ELSE IF ~Running(l) THEN l
      ELSE lock_release(file_close(l, l.file_descriptors[i].file_pointer))

sys_close(st0, fd) ==
  LET st == Enter(st0, "close")
      i  == get_fdstruct(st.file_descriptors, fd)
      l  == lock_acquire(st)
  IN  IF ~Running(st) THEN st
      ELSE IF fd < 2 THEN sys_exit(st, -1)
      ELSE IF i = 0 THEN sys_exit(st, -1)
      ELSE IF ~Running(l) THEN l
      ELSE lock_release(
             [file_close(l, l.file_descriptors[i].file_pointer) EXCEPT
                !.file_descriptors = Remove(@, i)])

sys_write_exit(st0, fd, buffer, size) ==
  LET st == lock_acquire(EnterIO(st0, "write", buffer, size))
      i  == get_fdstruct(st.file_descriptors, fd)
      h  == st.file_descriptors[i].file_pointer
  IN  IF ~Running(st) THEN st
      ELSE IF fd = 0 THEN sys_exit(lock_release(st), -1)
      ELSE IF fd = 1
           THEN Return(lock_release([st EXCEPT !.console = @ + size]), size)
      ELSE IF i = 0 THEN sys_exit(lock_release(st), -1)
      ELSE Return(lock_release(file_io(st, h, size)), Transfer(st, h, size))

sys_write(st0, fd, buffer, size) ==
  LET st == lock_acquire(EnterIO(st0, "write", buffer, size))
      i  == get_fdstruct(st.file_descriptors, fd)
      h  == st.file_descriptors[i].file_pointer
  IN  IF ~Running(st) THEN st
      ELSE IF fd = 0 THEN sys_exit(lock_release(st), -1)
      ELSE IF fd = 1
           THEN Return(lock_release([st EXCEPT !.console = @ + size]), size)
      ELSE IF i = 0 THEN Return(lock_release(st), -1)
      ELSE Return(lock_release(file_io(st, h, size)), Transfer(st, h, size))

sys_read(st0, fd, buffer, size) ==
  LET st == lock_acquire(EnterIO(st0, "read", buffer, size))
      i  == get_fdstruct(st.file_descriptors, fd)
      h  == st.file_descriptors[i].file_pointer
  IN  IF ~Running(st) THEN st
      ELSE IF fd = 0 THEN Return(st, 0)
      ELSE IF fd = 1 THEN sys_exit(lock_release(st), -1)
      ELSE IF i = 0 THEN Return(lock_release(st), -1)
      ELSE Return(lock_release(file_io(st, h, size)), Transfer(st, h, size))

sys_filesize(st0, fd) ==
  LET st == Enter(st0, "filesize")
      i  == get_fdstruct(st.file_descriptors, fd)
      l  == lock_acquire(st)
  IN  IF ~Running(st) THEN st
      ELSE IF i = 0 THEN Return(st, -1)
      ELSE IF ~Running(l) THEN l
      ELSE Return(lock_release(FsOp(l)),
                  file_length(l, l.file_descriptors[i].file_pointer))

sys_seek(st0, fd, position) ==
  LET st == Enter(st0, "seek")
      i  == get_fdstruct(st.file_descriptors, fd)
      l  == lock_acquire(st)
  IN  IF ~Running(st) THEN st
      ELSE IF i = 0 THEN st
      ELSE IF ~Running(l) THEN l
      ELSE lock_release(FsOp(l))

sys_tell(st0, fd) ==
  LET st == Enter(st0, "tell")
      i  == get_fdstruct(st.file_descriptors, fd)
      l  == lock_acquire(st)
  IN  IF ~Running(st) THEN st
      ELSE IF i = 0 THEN Return(st, -1)
      ELSE IF ~Running(l) THEN l
      ELSE Return(lock_release(FsOp(l)), 0)

\* process_execute and process_wait answer with st.ext
sys_exec(st0, cmd_line, s) ==
  LET st == valid_string(Enter(st0, "exec"), cmd_line, s)
  IN  Return(st, st.ext)

sys_wait(st0, pid) == Return(Enter(st0, "wait"), st0.ext)

sys_halt(st0) ==
  IF Running(st0) THEN [Enter(st0, "halt") EXCEPT !.status = "halted"] ELSE st0

(***************************************************************************)
(* Memory mapping.                                                         *)
(***************************************************************************)
\* file_reopen: a new struct file on the inode of h, owned by the mapping
file_reopen(st, h) == [FsOp(st) EXCEPT !.reopens = @ + 1]

\* spt_link_mmap: a new FILE_MAPPED entry at addr; false when the page is
\* not a free user page
CanLink(st, addr) ==
  is_valid_user_addr(addr) /\ get_spte(st.spt, addr) = NULL

spt_link_mmap(st, file, ofs, addr, read_bytes, zero_bytes, writeable) ==
  [st EXCEPT !.spt[pg_no(addr)] =
     [kind |-> "mmap", writeable |-> writeable, pinned |-> FALSE,
      mapid |-> st.mapid, read_bytes |-> read_bytes]]

LinkRequest_first(st, file, ofs, addr, read_bytes, zero_bytes, writeable) ==
  [st EXCEPT !.links =
     Append(@, [addr |-> addr, ofs |-> 0, read_bytes |-> read_bytes,
                zero_bytes |-> zero_bytes, writeable |-> writeable])]

\* the call of spt_link_mmap, as the loop of sys_mmap makes it
LinkRequest(st, file, ofs, addr, read_bytes, zero_bytes, writeable) ==
  [st EXCEPT !.links =
     Append(@, [addr |-> addr, ofs |-> ofs, read_bytes |-> read_bytes,
                zero_bytes |-> zero_bytes, writeable |-> writeable])]

MapPages_keep(st, file, ofs, addr, read_bytes) == Return(st, st.mapid)

RECURSIVE MapPages(_, _, _, _, _)
MapPages(st, file, ofs, addr, read_bytes) ==
  IF read_bytes = 0 THEN Return([st EXCEPT !.mapid = @ + 1], st.mapid)
  ELSE LET page_read_bytes == IF read_bytes < PGSIZE THEN read_bytes ELSE PGSIZE
           page_zero_bytes == PGSIZE - page_read_bytes
           st1 == LinkRequest(st, file, ofs, addr, page_read_bytes,
                              page_zero_bytes, TRUE)
       IN  IF ~CanLink(st, addr) THEN Return(st1, -1)
           ELSE MapPages(spt_link_mmap(st1, file, ofs, addr, page_read_bytes,
                                       page_zero_bytes, TRUE),
                         file, ofs + page_read_bytes, PtrAdd(addr, PGSIZE),
                         read_bytes - page_read_bytes)

\* file_length is called on fd_s->file_pointer before fd_s is tested: with
\* no entry for fd the kernel dereferences NULL
sys_mmap(st0, fd, addr) ==
  LET st     == Enter(st0, "mmap")
      i      == get_fdstruct(st.file_descriptors, fd)
      h      == st.file_descriptors[i].file_pointer
      length == file_length(st, h)
      st1    == FsOp(st)
      st2    == file_reopen(st1, h)
  IN  IF ~Running(st) THEN st
      ELSE IF i = 0 THEN KernelFault(st)
      ELSE IF ~is_valid_user_addr(addr) \/ addr % PGSIZE # 0 \/ length = 0
           THEN Return(st1, -1)
      ELSE MapPages(st2, h, 0, addr, length)

\* remove_mapid: drops the entries of the mapping
sys_munmap(st0, map) ==
  LET st == Enter(st0, "munmap")
  IN  IF ~Running(st) THEN st
      ELSE [st EXCEPT !.spt =
              [p \in Pages |->
                 IF st.spt[p].kind = "mmap" /\ st.spt[p].mapid = map
                 THEN NoSpte ELSE st.spt[p]]]

(***************************************************************************)
(* The dispatcher.                                                         *)
(***************************************************************************)
Argc(type) ==
  CASE type \in {"halt", "unread"} -> 0
    [] type \in {"create", "seek", "mmap"} -> 2
    [] type \in {"read", "write"} -> 3
    [] OTHER -> 1

Slot(esp, i) == PtrAdd(esp, i * WORD)

\* the dispatcher reads the word at addr: which of its bytes lie on a page
\* that is not pinned at that moment
Deref(st, addr) ==
  IF Running(st)
  THEN [st EXCEPT !.early = @ \cup {b \in Range(addr, WORD) :
                                      \/ get_spte(st.spt, b) = NULL
                                      \/ ~st.spt[pg_no(b)].pinned}]
  ELSE st

\* get_syscall_type: the four bytes at esp are checked, then read
get_syscall_type(st, esp) == Deref(valid_uaddr(st, esp, WORD), esp)

\* get_syscall_arg: each slot is pinned by its first byte, with the size of
\* a word passed where check_and_pin_addr expects the stack pointer, and
\* then read
RECURSIVE ArgsFrom(_, _, _, _)
ArgsFrom(st, esp, i, argc) ==
  IF i > argc \/ ~Running(st) THEN st
  ELSE ArgsFrom(Deref(check_and_pin_addr(st, Slot(esp, i), WORD),
                      Slot(esp, i)),
                esp, i + 1, argc)

get_syscall_arg(st, esp, argc) == ArgsFrom(st, esp, 1, argc)

\* ASSERT (is_valid_user_addr (syscall_args[0]))
AssertValid(st, a) ==
  IF Running(st) /\ ~is_valid_user_addr(a)
  THEN [st EXCEPT !.status = "panic"] ELSE st

\* the body of the switch, after the arguments a = <<a0, a1, a2>> were read;
\* s is the string at a[1] for the calls that take one
Dispatch(st, type, esp, a, s) ==
  CASE type = "create" ->
         unpin_string(AssertValid(
           sys_create(check_and_pin_string(st, a[1], s, esp), a[1], s, a[2]),
           a[1]), a[1], s)
    [] type = "remove" ->
         sys_remove(check_and_pin_string(st, a[1], s, esp), a[1], s)
    [] type = "open" ->
         unpin_string(AssertValid(
           sys_open(check_and_pin_string(st, a[1], s, esp), a[1], s),
           a[1]), a[1], s)
    [] type = "close" -> sys_close(st, a[1])
    [] type = "exit" ->
         IF Running(st) THEN sys_exit(Enter(st, "exit"), a[1]) ELSE st
    [] type = "write" ->
         unpin_buffer(
           sys_write(check_and_pin_buffer(st, a[2], a[3], esp, FALSE),
                     a[1], a[2], a[3]), a[2], a[3])
    [] type = "read" ->
         unpin_buffer(
           sys_read(check_and_pin_buffer(st, a[2], a[3], esp, TRUE),
                    a[1], a[2], a[3]), a[2], a[3])
    [] type = "filesize" -> sys_filesize(st, a[1])
    [] type = "exec" ->
         unpin_string(AssertValid(
           sys_exec(check_and_pin_string(st, a[1], s, esp), a[1], s),
           a[1]), a[1], s)
    [] type = "wait" -> sys_wait(st, a[1])
    [] type = "seek" -> sys_seek(st, a[1], a[2])
    [] type = "tell" -> sys_tell(st, a[1])
    [] type = "mmap" -> sys_mmap(st, a[1], a[2])
    [] type = "munmap" -> sys_munmap(st, a[1])
    [] type = "halt" -> sys_halt(st)

\* a word read from a page that stack growth created during the call is 0
ArgAt(spt0, esp, i, v) == IF get_spte(spt0, Slot(esp, i)) = NULL THEN 0 ELSE v

\* (st is the state get_syscall_type left: the number of the call is read)
syscall_handler(st, type, esp, v, cstr) ==
  LET st1 == check_and_pin_addr(st, esp, esp)
      st2 == get_syscall_arg(st1, esp, Argc(type))
      a   == [i \in 1 .. 3 |-> ArgAt(st.spt, esp, i, v[i])]
      s   == StrAt(st.spt, a[1], cstr)
  IN  unpin_addr(Dispatch(st2, type, esp, a, s), esp)

(***************************************************************************)
(* The state: one user process and the kernel objects it reaches.          *)
(***************************************************************************)
VARIABLES
  status,            \* of the process's thread
  exit_status,       \* thread_current ()->exit_status
  file_descriptors,  \* thread_current ()->file_descriptors
  fd_index,          \* thread_current ()->fd_index
  spt,               \* the supplemental page table of the process
  mapid,             \* thread_current ()->mapid
  filesystem_lock,   \* TRUE while the thread holds filesystem_lock
  filesys,           \* the directory: name -> length, NoFile when absent
  files,             \* every struct file handed out, with its close count
  last,              \* what the last system call was and did
  opened,            \* the descriptors open returned, in call order
  closed,            \* the descriptors close retired
  mapids,            \* the mapids mmap returned, in call order
  thr,               \* the threads of the interleaving model
  holder             \* the holder of filesystem_lock there, 0 when free

vars == <<status, exit_status, file_descriptors, fd_index, spt, mapid,
          filesystem_lock, filesys, files, last, opened, closed, mapids, thr,
          holder>>

seqvars == <<status, exit_status, file_descriptors, fd_index, spt, mapid,
             filesystem_lock, filesys, files, last, opened, closed, mapids>>

NoCall ==
  [type |-> "none", arg1 |-> 0, size |-> 0, ret |-> NoRet, ran |-> "none",
   arg2 |-> 0, fsops |-> 0, unlocked |-> FALSE, console |-> 0, bad |-> FALSE,
   unval |-> FALSE, leak |-> FALSE, unpinned |-> FALSE, ro |-> FALSE,
   reopens |-> 0, links |-> <<>>, early |-> FALSE]

\* the record the handlers work on: the state, the inputs, the observations
Entry(grow, ub, malloc, ext, fault) ==
  [status |-> status, exit_status |-> exit_status,
   file_descriptors |-> file_descriptors, fd_index |-> fd_index, spt |-> spt,
   mapid |-> mapid, lock |-> filesystem_lock, filesys |-> filesys,
   files |-> files,
   grow |-> grow, ub |-> ub, malloc |-> malloc, ext |-> ext, fault |-> fault,
   ret |-> NoRet, ran |-> "none", fsops |-> 0, unlocked |-> 0, console |-> 0,
   unval |-> {}, pins |-> {}, unpinned |-> {}, reopens |-> 0, links |-> <<>>,
   early |-> {}]

(***************************************************************************)
(* The inputs: stack pointers, pointers, lengths and descriptors a user    *)
(* program may pass.                                                       *)
(***************************************************************************)
EspChoices ==
  {0, 5, PHYS_BASE - 2 * PGSIZE, PHYS_BASE - 5 * WORD, PHYS_BASE - PGSIZE,
   PHYS_BASE - 2 * WORD, PHYS_BASE - 2, PHYS_BASE, AddrSpace - 2}

PtrChoices ==
  {0, 2 * PGSIZE + 3, 3 * PGSIZE - 1, PHYS_BASE - STACK_MAX, PHYS_BASE - 1,
   PHYS_BASE}

\* <<buffer, size>>
BufChoices ==
  {<<0, 2>>, <<PGSIZE, 2>>, <<2 * PGSIZE + 3, 0>>, <<2 * PGSIZE + 3, 2>>,
   <<3 * PGSIZE - 1, 2>>, <<PHYS_BASE - 1, 2>>,
   <<PHYS_BASE - 1, AddrSpace - PHYS_BASE + 1>>,
   <<PGSIZE, AddrSpace - PGSIZE>>}

FdChoices == -1 .. (MaxFiles + 1)
SizeChoices == {0}

ArgChoices(type) ==
  CASE type \in {"create"} -> {<<p, n, 0>> : p \in PtrChoices, n \in SizeChoices}
    [] type \in {"remove", "open", "exec"} -> {<<p, 0, 0>> : p \in PtrChoices}
    [] type \in {"close", "filesize", "tell"} -> {<<f, 0, 0>> : f \in FdChoices}
    [] type = "seek" -> {<<f, n, 0>> : f \in FdChoices, n \in {0, 1}}
    [] type \in {"read", "write"} ->
         {<<f, 2 * PGSIZE + 3, 2>> : f \in FdChoices}
         \cup {<<f, b[1], b[2]>> : f \in {1, 2}, b \in BufChoices}
    [] type = "mmap" ->
         {<<f, PHYS_BASE - STACK_MAX, 0>> : f \in FdChoices}
         \cup {<<2, p, 0>> : p \in PtrChoices \cup {2 * PGSIZE}}
    [] type = "munmap" -> {<<m, 0, 0>> : m \in {0, 1}}
    [] type = "exit" -> {<<n, 0, 0>> : n \in {-1, 0, 1}}
    [] type = "wait" -> {<<1, 0, 0>>}
    [] OTHER -> {<<0, 0, 0>>}

\* arguments that pass every check
PlainArgs(type) ==
  CASE type \in {"create", "remove", "open", "exec"} -> {<<2 * PGSIZE + 3, 0, 0>>}
    [] type \in {"read", "write"} -> {<<2, 2 * PGSIZE + 3, 2>>}
    [] type = "mmap" -> {<<2, PHYS_BASE - STACK_MAX, 0>>}
    [] type \in {"close", "filesize", "tell", "seek"} -> {<<2, 0, 0>>}
    [] OTHER -> {<<0, 0, 0>>}

\* a stack pointer at the lowest page of the stack, and a buffer that
\* starts on the page below it
ESP1 == PHYS_BASE - 2 * PGSIZE

GrowArgs(type) ==
  IF type \in {"read", "write"} THEN {<<2, ESP1 - 1, 2>>} ELSE {}

\* The stack pointer whose slots all lie on its own page is combined with
\* every choice of arguments, the other stack pointers with plain ones.
ESP0 == PHYS_BASE - PGSIZE

StackChoices(type, esp) ==
  IF esp = ESP0 THEN ArgChoices(type)
  ELSE IF esp = ESP1 THEN GrowArgs(type)
  ELSE IF is_valid_user_addr(esp) THEN PlainArgs(type)
  ELSE {<<0, 0, 0>>}

TakesString(type) == type \in {"create", "remove", "open", "exec"}
TakesFd(type) ==
  type \in {"close", "filesize", "tell", "seek", "read", "write", "mmap"}

\* every user address the call names: where the number is, the slots, the
\* bytes of the string up to its 0, the bytes of the buffer, the mmap target
Referenced(type, esp, a, s) ==
  {esp} \cup {Slot(esp, i) : i \in 1 .. Argc(type)}
  \cup (IF TakesString(type) THEN {PtrAdd(a[1], i) : i \in 0 .. Len(s)} ELSE {})
  \cup (IF type \in {"read", "write"} THEN Range(a[2], a[3]) ELSE {})
  \cup (IF type = "mmap" THEN {a[2]} ELSE {})

(***************************************************************************)
(* One system call of the process, from the trap to the return.            *)
(***************************************************************************)
Overflows(type, esp, v) ==
  \/ esp + WORD >= AddrSpace
  \/ type \in {"read", "write"} /\ v[2] + v[3] >= AddrSpace

\* whether the call names an address that only stack growth can back
MayGrow(type, esp, v, cstr) ==
  \E x \in Referenced(type, esp, v, cstr) :
     is_stack_growth(x, 0) /\ get_spte(spt, x) = NULL

\* the state after the call, and the record of what the call did
Effect(st, type, esp, a, s) ==
  /\ status' = st.status
  /\ exit_status' = st.exit_status
  /\ file_descriptors' = st.file_descriptors
  /\ fd_index' = st.fd_index
  /\ spt' = st.spt
  /\ mapid' = st.mapid
  /\ filesystem_lock' = st.lock
  /\ filesys' = st.filesys
  /\ files' = st.files
  /\ last' = [type |-> type,
              arg1 |-> IF TakesFd(type) \/ type = "exit" THEN a[1] ELSE 0,
              arg2 |-> IF type = "mmap" THEN a[2] ELSE 0,
              size |-> IF type \in {"read", "write"} THEN a[3] ELSE 0,
              ret |-> st.ret, ran |-> st.ran, fsops |-> st.fsops,
              unlocked |-> st.unlocked > 0, console |-> st.console,
              bad |-> \E x \in Referenced(type, esp, a, s) :
                         ~is_valid_user_addr(x),
              unval |-> st.unval # {},
              leak |-> \E p \in st.pins : st.spt[p].pinned,
              unpinned |-> st.unpinned # {},
              ro |-> /\ type \in {"read", "write"}
                     /\ \E b \in Range(a[2], a[3]) :
                           /\ get_spte(spt, b) # NULL
                           /\ ~spt[pg_no(b)].writeable,
              reopens |-> st.reopens, links |-> st.links,
              early |-> st.early # {}]
  /\ opened' = IF st.ran = "open" /\ Running(st) /\ st.ret # -1
               THEN Append(opened, st.ret) ELSE opened
  /\ closed' = IF st.ran = "close" /\ Running(st)
               THEN closed \cup {a[1]} ELSE closed
  /\ mapids' = IF st.ran = "mmap" /\ Running(st) /\ st.ret # -1
               THEN Append(mapids, st.ret) ELSE mapids
  /\ UNCHANGED <<thr, holder>>

\* process_execute starts the named program when there is one
Pid(type, cstr) ==
  IF type = "exec" /\ filesys[cstr] = NoFile THEN {-1} ELSE {1}

\* A trap whose stack pointer get_syscall_type rejects: the process is gone
\* before the number of the call is read.
BadTrap ==
  /\ status = "running"
  /\ last.type = "none"
  /\ \E esp \in EspChoices :
     \E ub \in (IF Overflows("unread", esp, <<0, 0, 0>>) THEN {"wrap", "count"}
                ELSE {"wrap"}) :
     \E st \in {get_syscall_type(Entry(TRUE, ub, TRUE, 0, "panic"), esp)} :
       /\ ~Running(st)
       /\ Effect(st, "unread", esp, <<0, 0, 0>>, <<>>)

\* A trap that reads the number of the call, type, and goes on from there.
Syscall(type) ==
  /\ status = "running"
  /\ last.type = "none"
  /\ \E esp \in EspChoices :
     \E v \in StackChoices(type, esp) :
     \E cstr \in (IF TakesString(type) THEN Names ELSE {<<>>}) :
     \E grow \in (IF MayGrow(type, esp, v, cstr) THEN BOOLEAN ELSE {TRUE}),
        ub \in (IF Overflows(type, esp, v) THEN {"wrap", "count"} ELSE {"wrap"}),
        malloc \in (IF type = "open" /\ v \in PlainArgs(type) THEN BOOLEAN
                    ELSE {TRUE}),
        ext \in (IF type = "wait" THEN {-1, 1} ELSE Pid(type, cstr)) :
     \E fault \in (IF type = "mmap" \/ ~malloc THEN {"panic", "kill"}
                   ELSE {"panic"}) :
     \E st0 \in {get_syscall_type(Entry(grow, ub, malloc, ext, fault), esp)} :
       /\ Running(st0)
       /\ \E st \in {syscall_handler(st0, type, esp, v, cstr)} :
            LET a == [i \in 1 .. 3 |-> ArgAt(spt, esp, i, v[i])]
            IN  Effect(st, type, esp, a, StrAt(spt, a[1], cstr))

\* the handler returns and the interrupt frame is restored: the thread is in
\* user mode again, free to make its next call
ReturnToUser ==
  /\ status = "running"
  /\ last.type # "none"
  /\ last' = NoCall
  /\ UNCHANGED <<status, exit_status, file_descriptors, fd_index, spt, mapid,
                 filesystem_lock, filesys, files, opened, closed, mapids, thr,
                 holder>>

Halt == last.type = "none" /\ Syscall("halt")
Exit == last.type = "none" /\ Syscall("exit")
Exec == last.type = "none" /\ Syscall("exec")
Wait == last.type = "none" /\ Syscall("wait")
Create == last.type = "none" /\ Syscall("create")
RemoveFile == last.type = "none" /\ Syscall("remove")
Open == last.type = "none" /\ Syscall("open")
Filesize == last.type = "none" /\ Syscall("filesize")
Read == last.type = "none" /\ Syscall("read")
Write == last.type = "none" /\ Syscall("write")
Seek == last.type = "none" /\ Syscall("seek")
Tell == last.type = "none" /\ Syscall("tell")
Close == last.type = "none" /\ Syscall("close")
\* (mappings are counted with the struct files: each reopens its file)
Mmap ==
  last.type = "none" /\ Len(files) + mapid < MaxFiles /\ Syscall("mmap")
Munmap == last.type = "none" /\ Syscall("munmap")

InitFilesys == [n \in Names |-> IF Len(n) = 1 THEN 2 ELSE NoFile]

InitThr ==
  [t \in 1 .. NumThreads |->
     [pc |-> "user", call |-> "none", i |-> 0, in |-> FALSE, open |-> FALSE]]

Init ==
  /\ status = "running"
  /\ exit_status = 0
  /\ file_descriptors = <<>>
  /\ fd_index = 2
  /\ spt = InitSpt
  /\ mapid = 0
  /\ filesystem_lock = FALSE
  /\ filesys = InitFilesys
  /\ files = <<>>
  /\ last = NoCall
  /\ opened = <<>>
  /\ closed = {}
  /\ mapids = <<>>
  /\ thr = InitThr
  /\ holder = 0

Next ==
  \/ Halt \/ Exit \/ Exec \/ Wait \/ Create \/ RemoveFile \/ Open
  \/ Filesize \/ Write \/ Read \/ Seek \/ Tell \/ Close \/ Mmap \/ Munmap
  \/ BadTrap \/ ReturnToUser

Spec == Init /\ [][Next]_vars

(***************************************************************************)
(* Several processes in the kernel at once.  Each handler is the sequence  *)
(* of its calls on filesystem_lock and into the file system, in the order  *)
(* of its code; a thread is inside a file-system function between its      *)
(* EnterFs and its LeaveFs.  open: whether the process has a descriptor.   *)
(***************************************************************************)
FsCalls == {"filesys_create", "filesys_remove", "filesys_open", "file_close",
            "file_write", "file_read", "file_length", "file_seek",
            "file_tell", "file_reopen"}

Locked(call) == <<"lock_acquire", call, "lock_release">>

\* sys_exit: file_close for each descriptor of the list, no lock taken
ExitSteps(open) == IF open THEN <<"file_close">> ELSE <<>>

Prog(call, open) ==
  CASE call = "create" -> Locked("filesys_create")
    [] call = "remove" -> Locked("filesys_remove")
    [] call = "open" -> Locked("filesys_open")
    [] call = "close" -> IF open THEN Locked("file_close") ELSE ExitSteps(open)
    [] call = "write" -> IF open THEN Locked("file_write")
                         ELSE <<"lock_acquire", "lock_release">>
    [] call = "read" -> IF open THEN Locked("file_read")
                        ELSE <<"lock_acquire", "lock_release">>
    [] call = "read0" -> <<"lock_acquire", "input_getc">>
    [] call = "filesize" -> IF open THEN Locked("file_length") ELSE <<>>
    [] call = "seek" -> IF open THEN Locked("file_seek") ELSE <<>>
    [] call = "tell" -> IF open THEN Locked("file_tell") ELSE <<>>
    [] call = "mmap" -> <<"file_length", "file_reopen">>
    [] call = "exit" -> ExitSteps(open)
    [] OTHER -> <<>>

ConcCalls == {"create", "remove", "open", "close", "write", "read", "read0",
              "filesize", "seek", "tell", "mmap", "exit"}

\* whether the call ends in thread_exit
Exits(call, open) == call = "exit" \/ (call = "close" /\ ~open)

Threads == 1 .. NumThreads

InKernel(t) == thr[t].pc = "kernel"
Steps(t) == Prog(thr[t].call, thr[t].open)
AtStep(t) == IF thr[t].i <= Len(Steps(t)) THEN Steps(t)[thr[t].i] ELSE "return"

SeqUnchanged == UNCHANGED seqvars

\* the thread traps into the kernel with some call
Trap(t) ==
  /\ thr[t].pc = "user"
  /\ \E call \in ConcCalls :
       /\ call = "mmap" => thr[t].open
       /\ thr' = [thr EXCEPT ![t] = [@ EXCEPT !.pc = "kernel", !.call = call,
                                              !.i = 1]]
  /\ UNCHANGED holder
  /\ SeqUnchanged

Acquire(t) ==
  /\ InKernel(t) /\ AtStep(t) = "lock_acquire"
  /\ holder = 0
  /\ holder' = t
  /\ thr' = [thr EXCEPT ![t].i = @ + 1]
  /\ SeqUnchanged

Release(t) ==
  /\ InKernel(t) /\ AtStep(t) = "lock_release"
  /\ holder' = IF holder = t THEN 0 ELSE holder
  /\ thr' = [thr EXCEPT ![t].i = @ + 1]
  /\ SeqUnchanged

EnterFs(t) ==
  /\ InKernel(t) /\ AtStep(t) \in FsCalls /\ ~thr[t].in
  /\ thr' = [thr EXCEPT ![t].in = TRUE]
  /\ UNCHANGED holder
  /\ SeqUnchanged

LeaveFs(t) ==
  /\ InKernel(t) /\ AtStep(t) \in FsCalls /\ thr[t].in
  /\ thr' = [thr EXCEPT ![t] = [@ EXCEPT !.in = FALSE, !.i = @ + 1]]
  /\ UNCHANGED holder
  /\ SeqUnchanged

\* input_getc: a key arrives
Getc(t) ==
  /\ InKernel(t) /\ AtStep(t) = "input_getc"
  /\ thr' = [thr EXCEPT ![t].i = @ + 1]
  /\ UNCHANGED holder
  /\ SeqUnchanged

\* the handler returns to the user program
Return_(t) ==
  /\ InKernel(t) /\ AtStep(t) = "return" /\ ~Exits(thr[t].call, thr[t].open)
  /\ thr' = [thr EXCEPT ![t] =
               [pc |-> "user", call |-> "none", i |-> 0, in |-> FALSE,
                open |-> IF thr[t].call = "open" THEN TRUE
                         ELSE IF thr[t].call = "close" THEN FALSE
                         ELSE thr[t].open]]
  /\ UNCHANGED holder
  /\ SeqUnchanged

\* the handler ends in thread_exit
ThreadExit(t) ==
  /\ InKernel(t) /\ AtStep(t) = "return" /\ Exits(thr[t].call, thr[t].open)
  /\ thr' = [thr EXCEPT ![t] = [pc |-> "dead", call |-> "none", i |-> 0,
                                 in |-> FALSE, open |-> FALSE]]
  /\ UNCHANGED holder
  /\ SeqUnchanged

NextConc ==
  \E t \in Threads :
     \/ Trap(t) \/ Acquire(t) \/ Release(t) \/ EnterFs(t) \/ LeaveFs(t)
     \/ Getc(t) \/ Return_(t) \/ ThreadExit(t)

SpecConc == Init /\ [][NextConc]_vars

\* The same threads under a fair scheduler: a thread that can take a step
\* takes one, a thread in user mode goes on making calls, and a thread that
\* waits for filesystem_lock gets it if the lock is free again and again
\* (sema_up wakes a waiter).
ThreadNext(t) ==
  \/ Trap(t) \/ Acquire(t) \/ Release(t) \/ EnterFs(t) \/ LeaveFs(t)
  \/ Getc(t) \/ Return_(t) \/ ThreadExit(t)

FairConc ==
  \A t \in Threads : WF_vars(ThreadNext(t)) /\ SF_vars(Acquire(t))

SpecFair == Init /\ [][NextConc]_vars /\ FairConc

(***************************************************************************)
(* Memory mapping on its own: a process with a small program (a code page  *)
(* and one page of stack, the pages between them free) that has descriptor *)
(* 2 open on a file of some length, and maps and unmaps it.                *)
(***************************************************************************)
InitSptM ==
  [p \in Pages |->
     IF p = 1 THEN Spte("exec", FALSE)
     ELSE IF p = UPAGES - 1 THEN Spte("zero", TRUE)
     ELSE NoSpte]

InitMmap ==
  /\ status = "running"
  /\ exit_status = 0
  /\ \E len \in 0 .. MaxLen :
        /\ files = <<[name |-> <<1>>, len |-> len, closes |-> 0]>>
        /\ filesys = [n \in Names |-> IF Len(n) = 1 THEN len ELSE NoFile]
  /\ file_descriptors = <<[fd |-> 2, file_pointer |-> 1, name |-> <<>>]>>
  /\ fd_index = 3
  /\ spt = InitSptM
  /\ mapid = 0
  /\ filesystem_lock = FALSE
  /\ last = NoCall
  /\ opened = <<2>>
  /\ closed = {}
  /\ mapids = <<>>
  /\ thr = InitThr
  /\ holder = 0

MmapMany == last.type = "none" /\ mapid < MaxMaps /\ Syscall("mmap")

NextMmap == MmapMany \/ Munmap \/ ReturnToUser

SpecMmap == InitMmap /\ [][NextMmap]_vars

(***************************************************************************)
(* The claims.                                                             *)
(***************************************************************************)
\* C1: a call that names an address that is null, in kernel space or
\* otherwise not a user address (its stack pointer, a slot, a byte of its
\* string or buffer, its mmap target) terminates the process with status -1
\* before the handler body runs: nothing is written to the console and
\* nothing is returned.
C1_BadAddressTerminates ==
  last.bad =>
    /\ status = "exited"
    /\ exit_status = -1
    /\ last.ran = "none"
    /\ last.console = 0
    /\ last.ret = NoRet

\* C2: sys_read and sys_write run only after every byte of
\* [buffer, buffer + size) was found to be a mapped user address, also when
\* buffer + size wraps around the address space.
C2_WholeBufferValidated ==
  last.ran \in {"read", "write"} => ~last.unval

\* C3: when a call returns to the user program or terminates the process,
\* no page that the call pinned is still pinned.
C3_NothingLeftPinned ==
  (last.type # "none" /\ status \in {"running", "exited"}) => ~last.leak

\* C4: a thread is inside a file-system function only while it holds
\* filesystem_lock, so at most one thread is inside one at any time.
C4_FsUnderLock ==
  /\ \A t \in Threads : thr[t].in => holder = t
  /\ Cardinality({t \in Threads : thr[t].in}) <= 1

\* C5: read, write, seek, tell and filesize on a descriptor that is neither
\* reserved nor in the descriptor table return -1 (seek: return) and close on
\* it terminates the process; the handler leaves the table and the counter
\* as they were (on termination the table is emptied by sys_exit).
C5_UnopenedFd ==
  [][(/\ last.type = "none"
      /\ last'.ran \in {"read", "write", "seek", "tell", "filesize",
                       "close"}
      /\ last'.arg1 \notin {0, 1}
      /\ get_fdstruct(file_descriptors, last'.arg1) = 0)
     => /\ fd_index' = fd_index
        /\ IF last'.ran = "close"
           THEN status' = "exited" /\ exit_status' = -1
           ELSE /\ status' = "running"
                /\ last'.ret = (IF last'.ran = "seek" THEN NoRet ELSE -1)
                /\ file_descriptors' = file_descriptors]_vars

\* C6 as stated: a write on a descriptor that open returned and close
\* retired terminates the process.
C6_WriteAfterCloseTerminates ==
  (last.ran = "write" /\ last.arg1 \in closed) =>
     status = "exited" /\ exit_status = -1

\* C6 amended: a write on a descriptor that open returned and close retired
\* does not terminate the process; it returns -1 and reaches no file.  (A
\* thread that still holds filesystem_lock does not get that far.)
C6_WriteAfterCloseFails ==
  (last.ran = "write" /\ last.arg1 \in closed /\ status # "blocked") =>
     /\ status = "running"
     /\ last.ret = -1
     /\ last.fsops = 0
     /\ last.console = 0

C6_Witness ==
  /\ last.ran = "write" /\ last.arg1 \in closed
  /\ status = "running" /\ last.ret = -1
  /\ file_descriptors # <<>>

\* C7: the descriptors open returns are all at least 2 and strictly
\* increasing in call order (so distinct and never reused, closes or not),
\* all below the counter, and no two entries of the table have the same one.
C7_FreshDescriptors ==
  /\ \A i \in 1 .. Len(opened) :
        /\ opened[i] >= 2
        /\ opened[i] < fd_index
        /\ i > 1 => opened[i] > opened[i - 1]
  /\ \A i, j \in 1 .. Len(file_descriptors) :
        i # j => file_descriptors[i].fd # file_descriptors[j].fd
  /\ \A i \in 1 .. Len(file_descriptors) :
        \E k \in 1 .. Len(opened) : opened[k] = file_descriptors[i].fd

C7_Witness ==
  /\ Len(opened) = 2
  /\ opened[1] \in closed
  /\ Len(file_descriptors) = 1

\* C8: a write to descriptor 0 terminates the process with -1 and sends
\* nothing to the console; a read from descriptor 1 terminates it with -1;
\* a write of n bytes to descriptor 1 sends n bytes to the console and
\* returns n; the table is what it was (emptied by sys_exit on termination).
C8_ReservedDescriptors ==
  [][(last.type = "none" /\ last'.ran \in {"read", "write"})
     => /\ (last'.ran = "write" /\ last'.arg1 = 0) =>
             /\ status' = "exited" /\ exit_status' = -1
             /\ last'.console = 0
        /\ (last'.ran = "read" /\ last'.arg1 = 1) =>
             status' = "exited" /\ exit_status' = -1
        /\ (last'.ran = "write" /\ last'.arg1 = 1) =>
             /\ status' = "running"
             /\ last'.console = last'.size
             /\ last'.ret = last'.size
             /\ file_descriptors' = file_descriptors
             /\ fd_index' = fd_index]_vars

\* C9: close on descriptor 0 or 1 or on one not in the table terminates the
\* process; on any other the file is closed once, exactly its entry leaves
\* the table, and the other entries and the counter stay as they were.
C9_Close ==
  [][(last.type = "none" /\ last'.ran = "close")
     => LET fd == last'.arg1
            i  == get_fdstruct(file_descriptors, fd)
            h  == file_descriptors[i].file_pointer
        IN  IF fd \in {0, 1} \/ i = 0
            THEN status' = "exited"
            ELSE /\ status' = "running"
                 /\ file_descriptors' = Remove(file_descriptors, i)
                 /\ fd_index' = fd_index
                 /\ files' = [files EXCEPT ![h].closes = @ + 1]]_vars

\* C10: when sys_exit runs, every file of the table is closed, the table is
\* empty, the exit status is the one passed (-1 on the fatal paths), nothing
\* is returned and the thread takes no further step.
C10_Exit ==
  [][/\ status # "exited"
     /\ status' = "exited" =>
          /\ file_descriptors' = <<>>
          /\ \A i \in 1 .. Len(file_descriptors) :
                LET h == file_descriptors[i].file_pointer
                IN  files'[h].closes = files[h].closes + 1
          /\ exit_status' = (IF last'.ran = "exit" THEN last'.arg1 ELSE -1)
          /\ last'.ret = NoRet]_vars

C10_Witness ==
  /\ status = "exited"
  /\ exit_status = -1
  /\ last.ran = "write"
  /\ closed = {}
  /\ Len(files) = 2
  /\ \A h \in 1 .. Len(files) : files[h].closes = 1

\* C11: when the body of sys_read or sys_write is entered, every byte of
\* [buffer, buffer + size) lies on a page of the process that is pinned (and
\* nothing unpins it before the body returns), so an evictor that skips
\* pinned pages takes none of them; pages that stack growth created while
\* the buffer was pinned included.
C11_BufferPinned ==
  last.ran \in {"read", "write"} => ~last.unpinned

\* C12: a read whose buffer has a byte on a page whose entry is not
\* writable terminates the process with status -1 before sys_read is
\* entered: no call into the file system or the console is made.
C12_ReadNeedsWritable ==
  (last.type = "read" /\ last.ro) =>
     /\ status = "exited"
     /\ exit_status = -1
     /\ last.ran = "none"
     /\ last.fsops = 0
     /\ last.ret = NoRet

\* C13: mmap with a descriptor that is not in the table, an address that is
\* not page-aligned or not a valid user address, or a file of length zero
\* returns -1 and the process keeps running; no entry of the page table is
\* created, no file is reopened and the mapid counter is what it was.
C13_MmapFailsLocally ==
  [][(/\ last.type = "none"
      /\ last'.ran = "mmap"
      /\ LET i == get_fdstruct(file_descriptors, last'.arg1)
         IN  \/ i = 0
             \/ last'.arg2 % PGSIZE # 0
             \/ ~is_valid_user_addr(last'.arg2)
             \/ files[file_descriptors[i].file_pointer].len = 0)
     => /\ status' = "running"
        /\ last'.ret = -1
        /\ \A p \in Pages : spt'[p].kind = spt[p].kind
        /\ last'.reopens = 0
        /\ mapid' = mapid]_vars

\* C14: an mmap that returns -1 leaves the page table as it was before the
\* call: the entries it created before spt_link_mmap failed are gone.
C14_MmapAllOrNothing ==
  [][(/\ last.type = "none"
      /\ last'.ran = "mmap"
      /\ status' = "running"
      /\ last'.ret = -1)
     => \A p \in Pages :
           /\ spt'[p].kind = spt[p].kind
           /\ spt'[p].mapid = spt[p].mapid]_vars

\* C15: the mapids mmap returns are strictly increasing in call order (so
\* no two are equal) and below the counter; an mmap that fails and a munmap
\* leave the counter as it was, and a successful mmap returns the counter
\* and advances it by one.
C15_FreshMapids ==
  /\ [](\A i \in 1 .. Len(mapids) :
           /\ mapids[i] >= 0
           /\ mapids[i] < mapid
           /\ i > 1 => mapids[i] > mapids[i - 1])
  /\ [][(last.type = "none" /\ last'.type \in {"mmap", "munmap"})
        => IF last'.ran = "mmap" /\ status' = "running" /\ last'.ret # -1
           THEN last'.ret = mapid /\ mapid' = mapid + 1
           ELSE mapid' = mapid /\ mapids' = mapids]_vars

C15_Witness ==
  /\ mapids = <<0, 1>>
  /\ last.ran = "mmap"
  /\ last.ret = 1
  /\ mapid = 2
  /\ \A p \in Pages : spt[p].kind = "mmap" => spt[p].mapid = 1

\* C16: the dispatcher reads the number of the call and each argument slot
\* only from bytes whose page is pinned at that moment: the address is
\* validated and pinned first, then read.
C16_PinnedBeforeRead ==
  last.type # "none" => ~last.early

\* C17: a successful mmap (fd, addr) of a file of length L > 0 asks
\* spt_link_mmap for exactly ceil (L / PGSIZE) pages: the i-th (from 0) at
\* addr + i * PGSIZE, file offset i * PGSIZE, min (PGSIZE, L - i * PGSIZE)
\* bytes read and the rest of the page zero, writable; the bytes read sum to
\* L and only the last page has zero bytes.
C17_MmapLayout ==
  (last.ran = "mmap" /\ status = "running" /\ last.ret # -1) =>
     LET i0 == get_fdstruct(file_descriptors, last.arg1)
         L  == files[file_descriptors[i0].file_pointer].len
         n  == (L + PGSIZE - 1) \div PGSIZE
         lk == last.links
     IN  /\ L > 0
         /\ Len(lk) = n
         /\ \A k \in 1 .. Len(lk) :
               /\ lk[k].addr = last.arg2 + (k - 1) * PGSIZE
               /\ lk[k].ofs = (k - 1) * PGSIZE
               /\ lk[k].read_bytes = Min(PGSIZE, L - (k - 1) * PGSIZE)
               /\ lk[k].zero_bytes = PGSIZE - lk[k].read_bytes
               /\ lk[k].writeable
               /\ k < Len(lk) => lk[k].zero_bytes = 0
         /\ lk[n].ofs + lk[n].read_bytes = L

C17_Witness ==
  /\ last.ran = "mmap"
  /\ status = "running"
  /\ last.ret = 0
  /\ Len(last.links) = 3
  /\ last.links[3].read_bytes = 10
  /\ last.links[3].zero_bytes = PGSIZE - 10
  /\ last.links[3].ofs = 2 * PGSIZE

\* C18: when sys_create, sys_remove, sys_open, sys_close, sys_read,
\* sys_write, sys_filesize, sys_seek or sys_tell has returned to the
\* dispatcher, and when one of them has gone into sys_exit, the thread does
\* not hold filesystem_lock.
C18_LockReleased ==
  (/\ last.ran \in {"create", "remove", "open", "close", "read", "write",
                    "filesize", "seek", "tell"}
   /\ \/ status = "running"
      \/ status = "exited" /\ last.ran # "open")
  => ~filesystem_lock

\* C19: under fair scheduling a thread that waits for filesystem_lock
\* eventually holds it.
C19_LockLiveness ==
  \A t \in Threads :
     (thr[t].pc = "kernel" /\ AtStep(t) = "lock_acquire") ~> (holder = t)

\* C20: a struct file that a successful open put into the descriptor table
\* is closed at most once; an entry of the table never refers to a closed
\* one, and no two entries refer to the same one; when the process has
\* exited every one of them has been closed exactly once.
C20_ClosedOnce ==
  /\ Len(opened) <= Len(files)
  /\ \A h \in 1 .. Len(opened) : files[h].closes <= 1
  /\ \A i \in 1 .. Len(file_descriptors) :
        /\ file_descriptors[i].file_pointer \in 1 .. Len(opened)
        /\ files[file_descriptors[i].file_pointer].closes = 0
  /\ \A i, j \in 1 .. Len(file_descriptors) :
        i # j =>
          file_descriptors[i].file_pointer # file_descriptors[j].file_pointer
  /\ status = "exited" =>
        \A h \in 1 .. Len(opened) : files[h].closes = 1

C20_Witness ==
  /\ status = "exited"
  /\ exit_status = -1
  /\ Len(opened) = 2
  /\ closed # {}
  /\ last.ran = "read"
  /\ \A h \in 1 .. Len(opened) : files[h].closes = 1

====
